---- MODULE Spec2Model ----
(***************************************************************************)
(* Model of keymap_drawer/live.py: the live key-highlight overlay.         *)
(*                                                                         *)
(* Python strings are modelled as sequences of character codes, so that    *)
(* str.split, str.join, sorted, str.lower, str.strip, str.startswith and   *)
(* the substring test are computed the way the interpreter computes them.  *)
(***************************************************************************)
EXTENDS Integers, Sequences, FiniteSets, TLC

\* ------------------------------------------------------------------------
\* String literals of the source and of the diagrams (character codes)
\* ------------------------------------------------------------------------
S_empty == <<>>                                            \* ''
S_key == <<107, 101, 121>>                                 \* 'key'
S_held == <<104, 101, 108, 100>>                           \* 'held'
S_key_held == <<107, 101, 121, 32, 104, 101, 108, 100>>    \* 'key held'
S_held_key == <<104, 101, 108, 100, 32, 107, 101, 121>>    \* 'held key'
S_side_key_key == <<115, 105, 100, 101, 32, 32, 107, 101, 121, 32, 107, 101, 121>>  \* 'side  key key'
S_key_tap == <<107, 101, 121, 32, 116, 97, 112>>           \* 'key tap'
S_key_hold == <<107, 101, 121, 32, 104, 111, 108, 100>>    \* 'key hold'
S_footer == <<102, 111, 111, 116, 101, 114>>               \* 'footer'
L_a == <<97>>                                              \* 'a'
L_A == <<65>>                                              \* 'A'
L_x == <<120>>                                             \* 'x'
L_X == <<88>>                                              \* 'X'
L_pad_a == <<32, 97, 10>>                                  \* ' a\n'
L_Shift == <<83, 104, 105, 102, 116>>                      \* 'Shift'
L_Control == <<67, 111, 110, 116, 114, 111, 108>>          \* 'Control'
L_Alt == <<65, 108, 116>>                                  \* 'Alt'
L_AltGr == <<65, 108, 116, 71, 114>>                       \* 'AltGr'
L_Meta == <<77, 101, 116, 97>>                             \* 'Meta'
L_Caps == <<67, 97, 112, 115>>                             \* 'Caps'
L_Tab == <<84, 97, 98>>                                    \* 'Tab'
L_Enter == <<69, 110, 116, 101, 114>>                      \* 'Enter'
L_Space == <<83, 112, 97, 99, 101>>                        \* 'Space'
L_Backspace == <<66, 97, 99, 107, 115, 112, 97, 99, 101>>  \* 'Backspace'
L_Delete == <<68, 101, 108, 101, 116, 101>>                \* 'Delete'
L_Esc == <<69, 115, 99>>                                   \* 'Esc'
KEY_ == <<75, 69, 89, 95>>                                 \* 'KEY_'
KEY_A == <<75, 69, 89, 95, 65>>                            \* 'KEY_A'
KEY_X == <<75, 69, 89, 95, 88>>                            \* 'KEY_X'
KEY_F1 == <<75, 69, 89, 95, 70, 49>>
BTN_LEFT == <<66, 84, 78, 95, 76, 69, 70, 84>>
KEY_LEFTSHIFT == <<75, 69, 89, 95, 76, 69, 70, 84, 83, 72, 73, 70, 84>>       \* 'KEY_LEFTSHIFT'
KEY_RIGHTSHIFT == <<75, 69, 89, 95, 82, 73, 71, 72, 84, 83, 72, 73, 70, 84>>  \* 'KEY_RIGHTSHIFT'

\* ------------------------------------------------------------------------
\* Python string operations
\* ------------------------------------------------------------------------
\* str.isspace for one character (ASCII whitespace, as str.split/strip use)
IsSpace(c) == c \in {9, 10, 11, 12, 13, 28, 29, 30, 31, 32}

\* str.lower on ASCII
LowerChar(c) == IF c >= 65 /\ c =< 90 THEN c + 32 ELSE c
Lower(s) == [i \in 1..Len(s) |-> LowerChar(s[i])]

\* str.startswith
StartsWith(s, p) == Len(s) >= Len(p) /\ SubSeq(s, 1, Len(p)) = p

\* s[n:]
DropPrefix(s, n) == SubSeq(s, n + 1, Len(s))

\* `sub in s`
Contains(sub, s) ==
    \E i \in 0..(Len(s) - Len(sub)) : SubSeq(s, i + 1, i + Len(sub)) = sub

\* str.strip()
RECURSIVE LStrip(_)
LStrip(s) == IF s # <<>> /\ IsSpace(Head(s)) THEN LStrip(Tail(s)) ELSE s
RECURSIVE RStrip(_)
RStrip(s) ==
    IF s # <<>> /\ IsSpace(s[Len(s)]) THEN RStrip(SubSeq(s, 1, Len(s) - 1)) ELSE s
Strip(s) == RStrip(LStrip(s))

\* str.split() with no argument: the list of maximal runs of non-space
\* characters.  SplitFrom scans s left to right with the current token cur.
RECURSIVE SplitFrom(_, _, _)
SplitFrom(s, cur, acc) ==
    IF s = <<>>
    THEN IF cur = <<>> THEN acc ELSE Append(acc, cur)
    ELSE IF IsSpace(Head(s))
         THEN SplitFrom(Tail(s), <<>>, IF cur = <<>> THEN acc ELSE Append(acc, cur))
         ELSE SplitFrom(Tail(s), Append(cur, Head(s)), acc)
Split(s) == SplitFrom(s, <<>>, <<>>)

\* set(list)
ToSet(seq) == {seq[i] : i \in 1..Len(seq)}

\* Python's < on str: lexicographic by code point, a proper prefix is smaller
RECURSIVE StrLess(_, _)
StrLess(a, b) ==
    IF b = <<>> THEN FALSE
    ELSE IF a = <<>> THEN TRUE
    ELSE IF Head(a) # Head(b) THEN Head(a) < Head(b)
    ELSE StrLess(Tail(a), Tail(b))

\* sorted(set of str)
RECURSIVE Sorted(_)
Sorted(S) ==
    IF S = {} THEN <<>>
    ELSE LET m == CHOOSE x \in S : \A y \in S \ {x} : StrLess(x, y)
         IN  <<m>> \o Sorted(S \ {m})

\* ' '.join(list of str)
RECURSIVE Join(_)
Join(l) ==
    IF l = <<>> THEN <<>>
    ELSE IF Len(l) = 1 THEN l[1]
    ELSE l[1] \o <<32>> \o Join(Tail(l))


\* ------------------------------------------------------------------------
\* Bounds
\* ------------------------------------------------------------------------
\* update_key_state calls explored when the widget is driven directly
MaxCalls == 3
\* physical key transitions the keyboard produces
MaxPhys == 3
\* KeyboardMonitor objects whose reader thread was started
MaxMonitors == 1
\* the same, where the window is hidden and shown again
MaxRestarts == 2
\* physical key transitions typed into the window when evdev is not installed
MaxTyped == 4

\* thread.join(timeout=1.0), in clock ticks of one second
JoinTimeout == 1

\* ------------------------------------------------------------------------
\* State
\* ------------------------------------------------------------------------
VARIABLES
    svg_root,      \* SvgWidget.svg_root: the parsed tree, a sequence of groups
    held_keys,     \* SvgWidget.held_keys
    renderer,      \* source loaded into SvgWidget.renderer (QSvgRenderer)
    loads,         \* number of renderer.load calls made by update_key_state
    repaints,      \* number of self.update() repaint requests
    last_call,     \* history: the most recent update_key_state call
    prev_call,     \* history: the update_key_state call before last_call
    transitions,   \* history: label -> is_held of the last call made for it
    EVDEV_AVAILABLE,   \* module flag set by the import of evdev
    svg_exists,    \* live(): svg_path.exists()
    app,           \* live(): the QApplication has been constructed
    exit_code,     \* live(): the code passed to sys.exit before the event loop, 0 if none
    win,           \* KeymapWindow: "none" before construction, then "created",
                   \* "visible", "hidden" or "closed"
    focus,         \* the window has the keyboard focus
    keyboard_monitor,  \* KeymapWindow.keyboard_monitor: 0 (None) or a monitor
    monitors,      \* the started KeyboardMonitor objects with their reader thread
    posted,        \* queued key_pressed/key_released signal deliveries (FIFO)
    native,        \* key events the window system queued for the window (FIFO)
    uiPc,          \* UI thread: "idle" or "join" (inside stop()'s thread.join)
    clock,         \* seconds waited in thread.join
    down,          \* physical keys currently down
    nphys,         \* physical key transitions so far
    missed,        \* history: a key transition came while the window was not
                   \* visible and focused
    applied,       \* history: <<physical transition, backend>> of each update_key_state call
    last_shift     \* history: last shift transition a handler applied

widget_vars ==
    <<svg_root, held_keys, renderer, loads, repaints, last_call, prev_call, transitions>>
thread_vars == <<monitors, posted>>
process_vars == <<EVDEV_AVAILABLE, svg_exists, app, exit_code>>
window_vars == <<process_vars, win, focus, keyboard_monitor, native, uiPc, clock>>
keyboard_vars == <<down, nphys, missed>>
history_vars == <<applied, last_shift>>
system_vars == <<thread_vars, window_vars, keyboard_vars, history_vars>>
vars == <<widget_vars, system_vars>>

\* None
None == <<>>

\* ------------------------------------------------------------------------
\* The diagram: <svg> holds <g> groups; a group holds <rect> children (each a
\* class attribute, '' when absent, as rect.get('class', '') reads it) and
\* <text> children (class attribute and text content, None read as '').
\* ------------------------------------------------------------------------
Groups == 1..2
RectClasses == {S_empty, S_key, S_held_key, S_side_key_key}
RectLists == {<<>>} \cup {<<c>> : c \in RectClasses} \cup {<<S_key, S_key_held>>}
WidgetTextNodes ==
    { [cls |-> S_key_tap, text |-> L_a],
      [cls |-> S_key_tap, text |-> L_pad_a],
      [cls |-> S_key_hold, text |-> L_Shift],
      [cls |-> S_footer, text |-> L_a],
      [cls |-> S_key_tap, text |-> S_empty] }
\* two text nodes, each placed in one of the groups, in document order
WidgetLayouts ==
    { <<t1, t2>> : t1 \in WidgetTextNodes \X Groups, t2 \in WidgetTextNodes \X Groups }
TextsOf(layout, g) ==
    LET Pick(i) == IF layout[i][2] = g THEN <<layout[i][1]>> ELSE <<>>
    IN  Pick(1) \o Pick(2)
WidgetDocuments ==
    { [g \in Groups |-> [rects |-> rl[g], texts |-> TextsOf(lay, g)]] :
        rl \in [Groups -> RectLists], lay \in WidgetLayouts }

\* root.iter('{...}text'): references <<g, i>> to the text nodes, in document order
RECURSIVE TextRefsFrom(_, _)
TextRefsFrom(root, g) ==
    IF g > Len(root) THEN <<>>
    ELSE [i \in 1..Len(root[g].texts) |-> <<g, i>>] \o TextRefsFrom(root, g + 1)
TextRefs(root) == TextRefsFrom(root, 1)

\* ET.tostring(svg_root): the elements in document order with their attributes
RECURSIVE SerializeFrom(_, _)
SerializeFrom(root, g) ==
    IF g > Len(root) THEN <<>>
    ELSE <<[tag |-> "g", class |-> S_empty, text |-> S_empty]>>
         \o [j \in 1..Len(root[g].rects) |->
                [tag |-> "rect", class |-> root[g].rects[j], text |-> S_empty]]
         \o [i \in 1..Len(root[g].texts) |->
                [tag |-> "text", class |-> root[g].texts[i].cls,
                 text |-> root[g].texts[i].text]]
         \o SerializeFrom(root, g + 1)
Serialize(root) == SerializeFrom(root, 1)

\* SvgWidget._find_parent: the first element, in document order, that has the
\* child among its children (0 for None)
find_parent(root, child) ==
    LET parents == {g \in 1..Len(root) : child[1] = g /\ child[2] \in 1..Len(root[g].texts)}
    IN  IF parents = {} THEN 0
        ELSE CHOOSE g \in parents : \A h \in parents : g =< h

\* SvgWidget._get_rect_from_text_element: the first <rect> child of the parent
get_rect_from_text_element(root, text_elem) ==
    LET parent == find_parent(root, text_elem)
    IN  IF parent # 0 /\ Len(root[parent].rects) > 0 THEN <<parent, 1>> ELSE None

\* SvgWidget.find_key_rect: the first text node whose class contains 'key'
\* and whose stripped text equals key_text decides the result
RECURSIVE FindFrom(_, _, _)
FindFrom(root, refs, key_text) ==
    IF refs = <<>> THEN None
    ELSE LET text_elem == root[Head(refs)[1]].texts[Head(refs)[2]]
         IN  IF /\ Contains(S_key, text_elem.cls)
                /\ text_elem.text # S_empty
                /\ Strip(text_elem.text) = key_text
             THEN get_rect_from_text_element(root, Head(refs))
             ELSE FindFrom(root, Tail(refs), key_text)
find_key_rect(root, key_text) == FindFrom(root, TextRefs(root), key_text)

\* rect.get('class', '')
ClassOf(root, rect) == root[rect[1]].rects[rect[2]]

\* the class-token set of a class attribute
Tokens(class_attr) == ToSet(Split(class_attr))

\* "held" appended to the class attribute as a string on every press
NewClass_AppendHeld(class_attr, is_held) ==
    IF is_held
    THEN (IF class_attr = S_empty THEN S_held ELSE class_attr \o <<32>> \o S_held)
    ELSE Join(Sorted(Tokens(class_attr) \ {S_held}))

\* the class tokens kept in their original order, "held" appended, never sorted
NewClass_Unsorted(class_attr, is_held) ==
    LET kept == SelectSeq(Split(class_attr), LAMBDA t : t # S_held)
    IN  Join(IF is_held THEN Append(kept, S_held) ELSE kept)

\* lines 244-252: the new class attribute of the rectangle
NewClass(class_attr, is_held) ==
    LET classes == Tokens(class_attr)
    IN  Join(Sorted(IF is_held THEN classes \cup {S_held} ELSE classes \ {S_held}))

\* held_keys.add on a press, and nothing on a release
NewHeld_NoDiscard(held, key_text, is_held) ==
    IF is_held THEN held \cup {key_text} ELSE held

\* lines 246, 249: held_keys.add / held_keys.discard
NewHeld(held, key_text, is_held) ==
    IF is_held THEN held \cup {key_text} ELSE held \ {key_text}

\* update_key_state with held_keys updated ahead of the "if rect is not None"
update_key_state_HeldAhead(key_text, is_held) ==
    LET rect == find_key_rect(svg_root, key_text)
    IN  /\ last_call' = [n |-> last_call.n + 1, key_text |-> key_text,
                         is_held |-> is_held, rect |-> rect,
                         before |-> IF rect = None THEN S_empty
                                    ELSE ClassOf(svg_root, rect)]
        /\ prev_call' = last_call
        /\ transitions' = (key_text :> is_held) @@ transitions
        /\ held_keys' = IF is_held THEN held_keys \cup {key_text}
                                   ELSE held_keys \ {key_text}
        /\ IF rect # None
           THEN /\ svg_root' = [svg_root EXCEPT ![rect[1]].rects[rect[2]] =
                                    NewClass(ClassOf(svg_root, rect), is_held)]
                /\ renderer' = Serialize(svg_root')
                /\ loads' = loads + 1
                /\ repaints' = repaints + 1
           ELSE UNCHANGED <<svg_root, renderer, loads, repaints>>

\* SvgWidget.update_key_state
update_key_state(key_text, is_held) ==
    LET rect == find_key_rect(svg_root, key_text)
    IN  /\ last_call' = [n |-> last_call.n + 1, key_text |-> key_text,
                         is_held |-> is_held, rect |-> rect,
                         before |-> IF rect = None THEN S_empty
                                    ELSE ClassOf(svg_root, rect)]
        /\ prev_call' = last_call
        /\ transitions' = (key_text :> is_held) @@ transitions
        /\ IF rect # None
           THEN /\ svg_root' = [svg_root EXCEPT ![rect[1]].rects[rect[2]] =
                                    NewClass(ClassOf(svg_root, rect), is_held)]
                /\ held_keys' = NewHeld(held_keys, key_text, is_held)
                /\ renderer' = Serialize(svg_root')
                /\ loads' = loads + 1
                /\ repaints' = repaints + 1
           ELSE UNCHANGED <<svg_root, held_keys, renderer, loads, repaints>>

NoCall == [n |-> 0, key_text |-> S_empty, is_held |-> FALSE, rect |-> None,
           before |-> S_empty]

\* SvgWidget.__init__ on a document
WidgetInit(doc) ==
    /\ svg_root = doc
    /\ held_keys = {}
    /\ renderer = Serialize(doc)
    /\ loads = 0
    /\ repaints = 0
    /\ last_call = NoCall
    /\ prev_call = NoCall
    /\ transitions = <<>>

\* ------------------------------------------------------------------------
\* Key maps
\* ------------------------------------------------------------------------
\* EVDEV_KEY_MAP with 'rightshift' given a label of its own
EVDEV_KEY_MAP_RightShiftApart ==
    <<108, 101, 102, 116, 115, 104, 105, 102, 116>> :> L_Shift @@           \* 'leftshift'
    <<114, 105, 103, 104, 116, 115, 104, 105, 102, 116>> :> <<82>> \o L_Shift  \* 'rightshift'

\* EVDEV_KEY_MAP
EVDEV_KEY_MAP ==
    <<108, 101, 102, 116, 115, 104, 105, 102, 116>> :> L_Shift @@           \* 'leftshift'
    <<114, 105, 103, 104, 116, 115, 104, 105, 102, 116>> :> L_Shift @@      \* 'rightshift'
    <<108, 101, 102, 116, 99, 116, 114, 108>> :> L_Control @@               \* 'leftctrl'
    <<114, 105, 103, 104, 116, 99, 116, 114, 108>> :> L_Control @@          \* 'rightctrl'
    <<108, 101, 102, 116, 97, 108, 116>> :> L_Alt @@                        \* 'leftalt'
    <<114, 105, 103, 104, 116, 97, 108, 116>> :> L_AltGr @@                 \* 'rightalt'
    <<108, 101, 102, 116, 109, 101, 116, 97>> :> L_Meta @@                  \* 'leftmeta'
    <<114, 105, 103, 104, 116, 109, 101, 116, 97>> :> L_Meta @@             \* 'rightmeta'
    <<99, 97, 112, 115, 108, 111, 99, 107>> :> L_Caps @@                    \* 'capslock'
    <<116, 97, 98>> :> L_Tab @@                                             \* 'tab'
    <<101, 110, 116, 101, 114>> :> L_Enter @@                               \* 'enter'
    <<115, 112, 97, 99, 101>> :> L_Space @@                                 \* 'space'
    <<98, 97, 99, 107, 115, 112, 97, 99, 101>> :> L_Backspace @@            \* 'backspace'
    <<100, 101, 108, 101, 116, 101>> :> L_Delete @@                         \* 'delete'
    <<101, 115, 99>> :> L_Esc @@                                            \* 'esc'
    <<101, 115, 99, 97, 112, 101>> :> L_Esc                                 \* 'escape'

\* QT_KEY_MAP
QT_KEY_MAP ==
    "Key_Shift" :> L_Shift @@ "Key_Control" :> L_Control @@ "Key_Alt" :> L_Alt @@
    "Key_AltGr" :> L_AltGr @@ "Key_Meta" :> L_Meta @@ "Key_Super_L" :> L_Meta @@
    "Key_Super_R" :> L_Meta @@ "Key_CapsLock" :> L_Caps @@ "Key_Tab" :> L_Tab @@
    "Key_Return" :> L_Enter @@ "Key_Enter" :> L_Enter @@ "Key_Space" :> L_Space @@
    "Key_Backspace" :> L_Backspace @@ "Key_Delete" :> L_Delete @@ "Key_Escape" :> L_Esc

\* dict.get(key, default)
Get(map, key, default) == IF key \in DOMAIN map THEN map[key] ELSE default

\* event_loop without the test "len(key_char) == 1 or key_name in EVDEV_KEY_MAP"
event_signal_AnyName(event) ==
    IF event.type # "EV_KEY" THEN None
    ELSE LET keycode == IF event.keycode.is_list THEN event.keycode.v[1]
                        ELSE event.keycode.v
         IN  IF ~StartsWith(keycode, KEY_) THEN None
             ELSE LET key_name == Lower(DropPrefix(keycode, 4))
                      key_char == Get(EVDEV_KEY_MAP, key_name, key_name)
                  IN  IF event.keystate = "key_down"
                      THEN [sig |-> "key_pressed", arg |-> key_char]
                      ELSE IF event.keystate = "key_up"
                      THEN [sig |-> "key_released", arg |-> key_char]
                      ELSE None

\* lines 114-134 of event_loop: the signal an input event makes the reader
\* emit, [sig, arg], or None.  keycode is [is_list, v]: a name or a list of names.
event_signal(event) ==
    IF event.type # "EV_KEY" THEN None
    ELSE LET keycode == IF event.keycode.is_list THEN event.keycode.v[1]
                        ELSE event.keycode.v
         IN  IF ~StartsWith(keycode, KEY_) THEN None
             ELSE LET key_name == Lower(DropPrefix(keycode, 4))
                      key_char == Get(EVDEV_KEY_MAP, key_name, key_name)
                  IN  IF Len(key_char) = 1 \/ key_name \in DOMAIN EVDEV_KEY_MAP
                      THEN IF event.keystate = "key_down"
                           THEN [sig |-> "key_pressed", arg |-> key_char]
                           ELSE IF event.keystate = "key_up"
                           THEN [sig |-> "key_released", arg |-> key_char]
                           ELSE None
                      ELSE None

\* lines 346-349 and 365-368: the label of a window key event
key_char_of(a0) ==
    LET key_char == Get(QT_KEY_MAP, a0.key, S_empty)
    IN  IF key_char = S_empty THEN a0.text ELSE key_char

\* ------------------------------------------------------------------------
\* The physical keyboard, as the kernel input device and the window system
\* report it
\* ------------------------------------------------------------------------
PhysKeys == {"A", "X", "LSHIFT", "RSHIFT"}
\* a key with a label, a function key and an extra button of the keyboard
RawKeys == {"A", "F1", "BTN"}
EvdevCode(k) ==
    CASE k = "A" -> KEY_A [] k = "X" -> KEY_X
      [] k = "LSHIFT" -> KEY_LEFTSHIFT [] k = "RSHIFT" -> KEY_RIGHTSHIFT
      [] k = "F1" -> KEY_F1 [] k = "BTN" -> BTN_LEFT
QtKey(k) ==
    CASE k = "A" -> "Key_A" [] k = "X" -> "Key_X"
      [] k = "LSHIFT" -> "Key_Shift" [] k = "RSHIFT" -> "Key_Shift"
      [] k = "F1" -> "Key_F1" [] k = "BTN" -> "Key_unknown"
\* QKeyEvent.text(): the character the key produces with the modifiers held
QtText(k, keys_down) ==
    LET shifted == keys_down \cap {"LSHIFT", "RSHIFT"} # {}
    IN  CASE k = "A" -> (IF shifted THEN L_A ELSE L_a)
          [] k = "X" -> (IF shifted THEN L_X ELSE L_x)
          [] OTHER -> S_empty
ShiftCodes == {KEY_LEFTSHIFT, KEY_RIGHTSHIFT}

NoEvent == [type |-> "none", keycode |-> [is_list |-> FALSE, v |-> S_empty],
            keystate |-> "none", src |-> 0]

\* the keyboard is slower than its readers: the next transition comes when
\* the device buffers and the window's event queue have been read
KeyboardPaced ==
    /\ native = <<>>
    /\ \A m \in DOMAIN monitors : monitors[m].buf = <<>>

\* the device of every monitor whose reader has not closed it receives the
\* event; the window receives it when it is visible and focused
Keyboard(k, keystate, qtype, keys_down) ==
    LET src == nphys + 1
        event == [type |-> "EV_KEY", keycode |-> [is_list |-> FALSE, v |-> EvdevCode(k)],
                  keystate |-> keystate, src |-> src]
        a0 == [type |-> qtype, key |-> QtKey(k), text |-> QtText(k, keys_down),
               src |-> src]
    IN  /\ KeyboardPaced
        /\ nphys' = src
        /\ down' = keys_down
        /\ missed' = (missed \/ ~(win = "visible" /\ focus))
        /\ monitors' = [m \in DOMAIN monitors |->
                           IF monitors[m].pc # "done"
                           THEN [monitors[m] EXCEPT !.buf = Append(@, event)]
                           ELSE monitors[m]]
        /\ native' = IF win = "visible" /\ focus THEN Append(native, a0) ELSE native
        /\ UNCHANGED <<widget_vars, posted, process_vars, win, focus,
                       keyboard_monitor, uiPc, clock, history_vars>>

PhysPress(k) ==
    k \notin down /\ nphys < MaxPhys /\ Keyboard(k, "key_down", "KeyPress", down \cup {k})
PhysRelease(k) ==
    k \in down /\ nphys < MaxPhys /\ Keyboard(k, "key_up", "KeyRelease", down \ {k})

\* ------------------------------------------------------------------------
\* KeyboardMonitor: the reader thread (event_loop) of monitor m
\* ------------------------------------------------------------------------
\* line 110-112: read_loop yields the next event; the stop flag ends the loop,
\* and the finally clause closes the device
ReaderRead(m) ==
    /\ m \in DOMAIN monitors
    /\ monitors[m].pc = "read"
    /\ monitors[m].buf # <<>>
    /\ monitors' = [monitors EXCEPT
          ![m].buf = Tail(@),
          ![m].event = IF monitors[m].stop_flag THEN NoEvent ELSE Head(monitors[m].buf),
          ![m].pc = IF monitors[m].stop_flag THEN "done" ELSE "emit"]
    /\ UNCHANGED <<widget_vars, posted, window_vars, keyboard_vars, history_vars>>

\* the signal connected directly: emit runs the slot's update_key_state in the
\* reader thread
ReaderEmitDirect(m) ==
    /\ m \in DOMAIN monitors
    /\ monitors[m].pc = "emit"
    /\ LET signal == event_signal(monitors[m].event)
       IN  IF signal = None
           THEN UNCHANGED widget_vars
           ELSE update_key_state(signal.arg, signal.sig = "key_pressed")
    /\ monitors' = [monitors EXCEPT ![m].event = NoEvent, ![m].pc = "read"]
    /\ UNCHANGED <<posted, window_vars, keyboard_vars, history_vars>>

\* key_released delivered ahead of the key_pressed calls still queued, as if
\* each of the two signals had a queue of its own
ReaderEmitReleaseFirst(m) ==
    /\ m \in DOMAIN monitors
    /\ monitors[m].pc = "emit"
    /\ LET event == monitors[m].event
           signal == event_signal(event)
           call == [sig |-> signal.sig, arg |-> signal.arg, src |-> event.src,
                    code |-> event.keycode.v, mon |-> m]
       IN  posted' = IF signal = None THEN posted
                     ELSE IF signal.sig = "key_released" THEN <<call>> \o posted
                     ELSE Append(posted, call)
    /\ monitors' = [monitors EXCEPT ![m].event = NoEvent, ![m].pc = "read"]
    /\ UNCHANGED <<widget_vars, window_vars, keyboard_vars, history_vars>>

\* lines 114-134: the event is mapped and the signal emitted; the receiver
\* lives in the UI thread, so the call is queued
ReaderEmit(m) ==
    /\ m \in DOMAIN monitors
    /\ monitors[m].pc = "emit"
    /\ LET event == monitors[m].event
           signal == event_signal(event)
       IN  posted' = IF signal = None THEN posted
                     ELSE Append(posted, [sig |-> signal.sig, arg |-> signal.arg,
                                          src |-> event.src,
                                          code |-> event.keycode.v, mon |-> m])
    /\ monitors' = [monitors EXCEPT ![m].event = NoEvent, ![m].pc = "read"]
    /\ UNCHANGED <<widget_vars, window_vars, keyboard_vars, history_vars>>

Reader(m) == ReaderRead(m) \/ ReaderEmit(m)

\* ------------------------------------------------------------------------
\* KeymapWindow: handlers, run by the UI thread one at a time
\* ------------------------------------------------------------------------
UiReady == uiPc = "idle" /\ win \in {"visible", "hidden"}

\* showEvent giving up when the monitor cannot start: the window is closed
showEventOrQuit(max_monitors) ==
    /\ uiPc = "idle"
    /\ win \in {"created", "hidden"}
    /\ IF EVDEV_AVAILABLE
       THEN \E found \in BOOLEAN :
               IF found /\ Len(monitors) < max_monitors
               THEN /\ monitors' = Append(monitors,
                                     [stop_flag |-> FALSE, pc |-> "read",
                                      event |-> NoEvent, buf |-> <<>>])
                    /\ keyboard_monitor' = Len(monitors) + 1
                    /\ win' = "visible"
               ELSE /\ keyboard_monitor' = 0
                    /\ win' = "closed"
                    /\ UNCHANGED monitors
       ELSE win' = "visible" /\ UNCHANGED <<monitors, keyboard_monitor>>
    /\ UNCHANGED <<widget_vars, posted, process_vars, focus, native, uiPc, clock,
                   keyboard_vars, history_vars>>

\* KeymapWindow.showEvent with KeyboardMonitor.start: find_keyboard_device
\* finds a keyboard (found) or returns None
showEvent(max_monitors) ==
    /\ uiPc = "idle"
    /\ win \in {"created", "hidden"}
    /\ win' = "visible"
    /\ IF EVDEV_AVAILABLE
       THEN \E found \in BOOLEAN :
               IF found /\ Len(monitors) < max_monitors
               THEN /\ monitors' = Append(monitors,
                                     [stop_flag |-> FALSE, pc |-> "read",
                                      event |-> NoEvent, buf |-> <<>>])
                    /\ keyboard_monitor' = Len(monitors) + 1
               ELSE /\ keyboard_monitor' = 0
                    /\ UNCHANGED monitors
       ELSE UNCHANGED <<monitors, keyboard_monitor>>
    /\ UNCHANGED <<widget_vars, posted, process_vars, focus, native, uiPc, clock,
                   keyboard_vars, history_vars>>

ShowEvent == showEvent(MaxMonitors)

\* the window is hidden (minimised); KeymapWindow overrides no hideEvent
HideEvent ==
    /\ uiPc = "idle"
    /\ win = "visible"
    /\ win' = "hidden"
    /\ focus' = FALSE
    /\ UNCHANGED <<widget_vars, thread_vars, process_vars, keyboard_monitor, native,
                   uiPc, clock, keyboard_vars, history_vars>>

\* the window gains or loses the keyboard focus
FocusChange ==
    /\ win = "visible"
    /\ focus' = ~focus
    /\ UNCHANGED <<widget_vars, thread_vars, process_vars, win, keyboard_monitor,
                   native, uiPc, clock, keyboard_vars, history_vars>>

\* KeyboardMonitor.stop, line 146, and the entry into thread.join
stop ==
    /\ monitors' = [monitors EXCEPT ![keyboard_monitor].stop_flag = TRUE]
    /\ uiPc' = "join"
    /\ clock' = 0

\* KeymapWindow.closeEvent
closeEvent ==
    IF keyboard_monitor # 0
    THEN stop /\ UNCHANGED win
    ELSE win' = "closed" /\ UNCHANGED <<monitors, uiPc, clock>>

\* a handler's call of update_key_state, with the history of its origin
Apply(key_char, is_held, via, src, is_shift) ==
    /\ update_key_state(key_char, is_held)
    /\ applied' = applied \cup {<<src, via>>}
    /\ last_shift' = IF is_shift
                     THEN (IF is_held THEN "pressed" ELSE "released")
                     ELSE last_shift

\* KeymapWindow.on_global_key_press
on_global_key_press(key_char, src, code) ==
    IF key_char = L_x
    THEN closeEvent /\ UNCHANGED <<widget_vars, history_vars>>
    ELSE Apply(key_char, TRUE, "device", src, code \in ShiftCodes) /\ UNCHANGED <<monitors, win, uiPc, clock>>

\* KeymapWindow.on_global_key_release
on_global_key_release(key_char, src, code) ==
    IF key_char # L_x
    THEN Apply(key_char, FALSE, "device", src, code \in ShiftCodes) /\ UNCHANGED <<monitors, win, uiPc, clock>>
    ELSE UNCHANGED <<widget_vars, history_vars, monitors, win, uiPc, clock>>

\* the UI thread delivers the oldest queued signal to its slot
DeliverSignal ==
    /\ UiReady
    /\ posted # <<>>
    /\ posted' = Tail(posted)
    /\ LET call == Head(posted)
       IN  IF call.sig = "key_pressed"
           THEN on_global_key_press(call.arg, call.src, call.code)
           ELSE on_global_key_release(call.arg, call.src, call.code)
    /\ UNCHANGED <<process_vars, focus, keyboard_monitor, native, keyboard_vars>>

\* KeymapWindow.keyPressEvent
keyPressEvent(a0) ==
    LET key_char == key_char_of(a0)
    IN  IF key_char # S_empty /\ Lower(key_char) = L_x
        THEN closeEvent /\ UNCHANGED <<widget_vars, history_vars>>
        ELSE IF key_char # S_empty
        THEN Apply(key_char, TRUE, "window", a0.src, a0.key = "Key_Shift")
             /\ UNCHANGED <<monitors, win, uiPc, clock>>
        ELSE UNCHANGED <<widget_vars, history_vars, monitors, win, uiPc, clock>>

\* KeymapWindow.keyReleaseEvent
keyReleaseEvent(a0) ==
    LET key_char == key_char_of(a0)
    IN  IF key_char # S_empty /\ Lower(key_char) # L_x
        THEN Apply(key_char, FALSE, "window", a0.src, a0.key = "Key_Shift")
             /\ UNCHANGED <<monitors, win, uiPc, clock>>
        ELSE UNCHANGED <<widget_vars, history_vars, monitors, win, uiPc, clock>>

\* the UI thread delivers the oldest window key event to its handler
DeliverKeyEvent ==
    /\ UiReady
    /\ native # <<>>
    /\ native' = Tail(native)
    /\ LET a0 == Head(native)
       IN  IF a0.type = "KeyPress" THEN keyPressEvent(a0) ELSE keyReleaseEvent(a0)
    /\ UNCHANGED <<posted, process_vars, focus, keyboard_monitor, keyboard_vars>>

\* the window system asks the window to close
WindowClose ==
    /\ UiReady
    /\ closeEvent
    /\ UNCHANGED <<widget_vars, posted, process_vars, focus, keyboard_monitor, native,
                   keyboard_vars, history_vars>>

\* a second passes while the UI thread waits in thread.join(timeout=1.0)
Tick ==
    /\ uiPc = "join"
    /\ clock < JoinTimeout
    /\ clock' = clock + 1
    /\ UNCHANGED <<widget_vars, thread_vars, process_vars, win, focus,
                   keyboard_monitor, native, uiPc, keyboard_vars, history_vars>>

\* thread.join() without a timeout
JoinReturnNoTimeout ==
    /\ uiPc = "join"
    /\ monitors[keyboard_monitor].pc = "done"
    /\ uiPc' = "idle"
    /\ win' = "closed"
    /\ UNCHANGED <<widget_vars, thread_vars, process_vars, focus, keyboard_monitor,
                   native, clock, keyboard_vars, history_vars>>

\* line 148: thread.join(timeout=1.0) returns when the thread has ended or the
\* timeout has passed; stop() returns and closeEvent completes
JoinReturn ==
    /\ uiPc = "join"
    /\ monitors[keyboard_monitor].pc = "done" \/ clock = JoinTimeout
    /\ uiPc' = "idle"
    /\ win' = "closed"
    /\ UNCHANGED <<widget_vars, thread_vars, process_vars, focus, keyboard_monitor,
                   native, clock, keyboard_vars, history_vars>>

\* ------------------------------------------------------------------------
\* The program: live() builds the window on a diagram and shows it
\* ------------------------------------------------------------------------
TapX == [cls |-> S_key_tap, text |-> L_x]
TapA == [cls |-> S_key_tap, text |-> L_a]
HoldShift == [cls |-> S_key_hold, text |-> L_Shift]
\* a key drawn with tap label 'x' and hold label 'Shift', and a key 'a'
Documents ==
    { << [rects |-> <<S_key>>, texts |-> <<TapX, HoldShift>>],
         [rects |-> <<S_key>>, texts |-> <<TapA>>] >> }

SystemInit ==
    /\ win = "created"
    /\ focus = FALSE
    /\ keyboard_monitor = 0
    /\ monitors = <<>>
    /\ posted = <<>>
    /\ native = <<>>
    /\ uiPc = "idle"
    /\ clock = 0
    /\ down = {}
    /\ nphys = 0
    /\ missed = FALSE
    /\ svg_exists = TRUE
    /\ app = TRUE
    /\ exit_code = 0
    /\ applied = {}
    /\ last_shift = "none"

Init ==
    /\ \E doc \in Documents : WidgetInit(doc)
    /\ EVDEV_AVAILABLE \in BOOLEAN
    /\ SystemInit

Next ==
    \/ \E k \in PhysKeys : PhysPress(k)
    \/ \E k \in PhysKeys : PhysRelease(k)
    \/ \E m \in 1..MaxMonitors : ReaderRead(m)
    \/ \E m \in 1..MaxMonitors : ReaderEmit(m)
    \/ ShowEvent
    \/ HideEvent
    \/ FocusChange
    \/ DeliverSignal
    \/ DeliverKeyEvent
    \/ WindowClose
    \/ Tick
    \/ JoinReturn

Spec == Init /\ [][Next]_vars

\* the process at the entry of live(): nothing is constructed yet
InitProcess ==
    /\ svg_root = <<>>
    /\ held_keys = {}
    /\ renderer = <<>>
    /\ loads = 0
    /\ repaints = 0
    /\ last_call = NoCall
    /\ prev_call = NoCall
    /\ transitions = <<>>
    /\ EVDEV_AVAILABLE \in BOOLEAN
    /\ svg_exists \in BOOLEAN
    /\ app = FALSE
    /\ exit_code = 0
    /\ win = "none"
    /\ focus = FALSE
    /\ keyboard_monitor = 0
    /\ monitors = <<>>
    /\ posted = <<>>
    /\ native = <<>>
    /\ uiPc = "idle"
    /\ clock = 0
    /\ down = {}
    /\ nphys = 0
    /\ missed = FALSE
    /\ applied = {}
    /\ last_shift = "none"

\* KeymapWindow.__init__ with SvgWidget.__init__ on the parsed file
NewWindow ==
    /\ win' = "created"
    /\ \E doc \in Documents : svg_root' = doc /\ renderer' = Serialize(doc)
    /\ held_keys' = {}
    /\ UNCHANGED <<loads, repaints, last_call, prev_call, transitions>>

\* live() with the QApplication constructed ahead of the svg_path.exists() test
liveAppFirst ==
    /\ win = "none" /\ ~app /\ exit_code = 0
    /\ app' = TRUE
    /\ IF ~svg_exists
       THEN exit_code' = 1 /\ UNCHANGED <<widget_vars, win>>
       ELSE NewWindow /\ UNCHANGED exit_code
    /\ UNCHANGED <<EVDEV_AVAILABLE, svg_exists, focus, keyboard_monitor, native, uiPc,
                   clock, thread_vars, keyboard_vars, history_vars>>

\* live(), up to the construction of the window: sys.exit(1) when the file
\* is missing
live ==
    /\ win = "none" /\ ~app /\ exit_code = 0
    /\ IF ~svg_exists
       THEN exit_code' = 1 /\ UNCHANGED <<widget_vars, win, app>>
       ELSE app' = TRUE /\ NewWindow /\ UNCHANGED exit_code
    /\ UNCHANGED <<EVDEV_AVAILABLE, svg_exists, focus, keyboard_monitor, native, uiPc,
                   clock, thread_vars, keyboard_vars, history_vars>>

NextProcess == live \/ Next

ProcessSpec == InitProcess /\ [][NextProcess]_vars

\* the program with a window that is hidden and shown again, on one key
ReshowKeys == {"A"}
ReShowEvent == showEvent(MaxRestarts)
NextReshow ==
    \/ \E k \in ReshowKeys : PhysPress(k)
    \/ \E k \in ReshowKeys : PhysRelease(k)
    \/ \E m \in 1..MaxRestarts : ReaderRead(m)
    \/ \E m \in 1..MaxRestarts : ReaderEmit(m)
    \/ ReShowEvent
    \/ HideEvent
    \/ FocusChange
    \/ DeliverSignal
    \/ DeliverKeyEvent
    \/ WindowClose
    \/ Tick
    \/ JoinReturn

ReshowSpec == Init /\ [][NextReshow]_vars

\* the program without evdev: the window-scoped handlers are the only backend
WindowKeys == {"A", "LSHIFT"}
TypePress(k) ==
    k \notin down /\ nphys < MaxTyped /\ Keyboard(k, "key_down", "KeyPress", down \cup {k})
TypeRelease(k) ==
    k \in down /\ nphys < MaxTyped /\ Keyboard(k, "key_up", "KeyRelease", down \ {k})

InitWindowOnly ==
    /\ \E doc \in Documents : WidgetInit(doc)
    /\ EVDEV_AVAILABLE = FALSE
    /\ SystemInit

NextWindowOnly ==
    \/ \E k \in WindowKeys : TypePress(k)
    \/ \E k \in WindowKeys : TypeRelease(k)
    \/ ShowEvent
    \/ HideEvent
    \/ FocusChange
    \/ DeliverKeyEvent
    \/ WindowClose

WindowSpec == InitWindowOnly /\ [][NextWindowOnly]_vars

\* the program on a keyboard with keys that have no label
NextRaw ==
    \/ \E k \in RawKeys : PhysPress(k)
    \/ \E k \in RawKeys : PhysRelease(k)
    \/ \E m \in 1..MaxMonitors : ReaderRead(m)
    \/ \E m \in 1..MaxMonitors : ReaderEmit(m)
    \/ ShowEvent
    \/ HideEvent
    \/ FocusChange
    \/ DeliverSignal
    \/ DeliverKeyEvent
    \/ WindowClose
    \/ Tick
    \/ JoinReturn

RawSpec == Init /\ [][NextRaw]_vars

\* time passes while the UI thread waits in join, and join returns once it can
StopSpec == Spec /\ WF_vars(Tick) /\ WF_vars(JoinReturn)

\* moreover the reader threads are scheduled: a reader that can take a step
\* does; the keyboard and the window system owe nothing
LiveSpec == StopSpec /\ \A m \in 1..MaxMonitors : WF_vars(Reader(m))

\* ------------------------------------------------------------------------
\* The widget driven directly: any sequence of update_key_state calls on any
\* document
\* ------------------------------------------------------------------------
CallLabels == {L_a, L_Shift}

InitWidget ==
    /\ \E doc \in WidgetDocuments : WidgetInit(doc)
    /\ EVDEV_AVAILABLE = FALSE
    /\ SystemInit

Call ==
    /\ last_call.n < MaxCalls
    /\ \E key_text \in CallLabels, is_held \in BOOLEAN :
          update_key_state(key_text, is_held)
    /\ UNCHANGED system_vars

NextWidget == Call

SpecWidget == InitWidget /\ [][NextWidget]_vars

\* the same, on the documents in which no rectangle carries "held" when loaded
NoHeldRect(doc) ==
    \A g \in 1..Len(doc) : \A j \in 1..Len(doc[g].rects) :
        S_held \notin Tokens(doc[g].rects[j])

InitClean ==
    /\ \E doc \in WidgetDocuments : NoHeldRect(doc) /\ WidgetInit(doc)
    /\ EVDEV_AVAILABLE = FALSE
    /\ SystemInit

SpecClean == InitClean /\ [][NextWidget]_vars

\* ------------------------------------------------------------------------
\* Claims about the widget
\* ------------------------------------------------------------------------
Resolves(label) == find_key_rect(svg_root, label) # None
RectOf(label) == find_key_rect(svg_root, label)
CarriesHeld(rect) == S_held \in Tokens(ClassOf(svg_root, rect))
LastTransition(label) ==
    IF label \in DOMAIN transitions
    THEN (IF transitions[label] THEN "pressed" ELSE "released")
    ELSE "none"
\* this step is an update_key_state call
Called == last_call'.n = last_call.n + 1

\* C1: for every label that resolves to a rectangle, the rectangle carries
\* "held" iff the label is a member of held_keys, also when two labels resolve
\* to the same rectangle.
C1_HeldIffMember ==
    \A label \in CallLabels :
        Resolves(label) => (CarriesHeld(RectOf(label)) <=> label \in held_keys)

C3_RedundantNoRepaint ==
    [][ ( /\ Called
          /\ last_call'.rect # None
          /\ last_call'.is_held <=> (S_held \in Tokens(last_call'.before)) )
        => (loads' = loads /\ repaints' = repaints) ]_vars

\* C4: for a label that resolves to no rectangle, update_key_state leaves the
\* document tree, the held set and the renderer source unchanged and triggers
\* no reload or repaint.
C4_UnindexedNoEffect ==
    [][ (Called /\ last_call'.rect = None)
        => UNCHANGED <<svg_root, held_keys, renderer, loads, repaints>> ]_vars

\* both a press and a release of a label without rectangle have been applied
C4_Witness ==
    /\ last_call.n >= 2
    /\ last_call.rect = None /\ prev_call.rect = None
    /\ last_call.is_held /\ ~prev_call.is_held

\* the class attribute is its tokens, strictly ascending, joined by one space
Canonical(class_attr) ==
    LET toks == Split(class_attr)
    IN  /\ \A i, j \in 1..Len(toks) : i < j => StrLess(toks[i], toks[j])
        /\ class_attr = Join(toks)

\* C5: for an indexed label whose rectangle does not carry "held", a press
\* sets the class to the sorted, space-joined original tokens plus "held" and
\* triggers exactly one reload/repaint; a following release restores the
\* original token set and triggers exactly one reload/repaint.
C5_PressThenRelease ==
    [][ (Called /\ last_call'.rect # None) =>
          LET rect == last_call'.rect
              now == ClassOf(svg_root', rect)
          IN  /\ ( last_call'.is_held /\ S_held \notin Tokens(last_call'.before) ) =>
                    /\ Tokens(now) = Tokens(last_call'.before) \cup {S_held}
                    /\ Canonical(now)
                    /\ loads' = loads + 1 /\ repaints' = repaints + 1
              /\ ( /\ ~last_call'.is_held
                   /\ last_call.n > 0 /\ last_call.is_held
                   /\ last_call.key_text = last_call'.key_text
                   /\ S_held \notin Tokens(last_call.before) ) =>
                    /\ Tokens(now) = Tokens(last_call.before)
                    /\ loads' = loads + 1 /\ repaints' = repaints + 1
      ]_vars

\* a press of an indexed label whose unsorted class lacked "held" was followed
\* by its release
C5_Witness ==
    /\ last_call.n >= 2
    /\ prev_call.rect # None /\ prev_call.is_held
    /\ prev_call.before = S_side_key_key
    /\ ~last_call.is_held /\ last_call.key_text = prev_call.key_text
    /\ loads = 2


\* ------------------------------------------------------------------------
\* Claims about the window and the monitor
\* ------------------------------------------------------------------------
ExitLabels == {L_x, L_X}
HeldIn(root, rect) == S_held \in Tokens(ClassOf(root, rect))
Closing == uiPc = "join" \/ win = "closed"
\* this step delivers a press of the exit label, from the device or the window
ExitPressDelivered ==
    \/ /\ UiReady /\ posted # <<>> /\ posted' = Tail(posted)
       /\ Head(posted).sig = "key_pressed" /\ Head(posted).arg \in ExitLabels
    \/ /\ UiReady /\ native # <<>> /\ native' = Tail(native)
       /\ Head(native).type = "KeyPress" /\ key_char_of(Head(native)) \in ExitLabels

\* C6: from every backend and for 'x' and 'X', a press of the exit label
\* closes the window, neither its press nor its release calls
\* update_key_state, it is never in held_keys, and its rectangle never gains
\* "held".
C6_ExitLabel ==
    [][ /\ ExitPressDelivered => Closing'
        /\ ExitLabels \cap DOMAIN transitions' = {}
        /\ ExitLabels \cap held_keys' = {}
        /\ \A label \in ExitLabels :
              LET rect == find_key_rect(svg_root, label)
              IN  (rect # None /\ ~HeldIn(svg_root, rect)) => ~HeldIn(svg_root', rect)
      ]_vars

\* C7: no physical key transition is applied to the widget by both the
\* device-backed monitor and the window's key handlers.
C7_OneBackend ==
    \A src \in 1..MaxPhys :
        ~(<<src, "device">> \in applied /\ <<src, "window">> \in applied)

\* C8: stop() on a running monitor returns within its join timeout, one
\* bounded wait, even if the device delivers no further events.
C8_StopReturns ==
    /\ [](uiPc = "join" => clock =< JoinTimeout)
    /\ (uiPc = "join") ~> (uiPc = "idle" /\ win = "closed")

\* stop() has returned by its timeout: the reader is still blocked on an idle
\* device
C8_Witness ==
    /\ win = "closed"
    /\ keyboard_monitor # 0
    /\ clock = JoinTimeout
    /\ monitors[keyboard_monitor].stop_flag
    /\ monitors[keyboard_monitor].pc = "read"
    /\ monitors[keyboard_monitor].buf = <<>>

\* C9: after stop() has set the stop flag the reader loop eventually exits and
\* closes the device, without any further device event.
C9_ReaderExits ==
    \A m \in 1..MaxMonitors :
        (m \in DOMAIN monitors /\ monitors[m].stop_flag)
            ~> (m \in DOMAIN monitors /\ monitors[m].pc = "done")

ShiftDown(keycode) ==
    [type |-> "EV_KEY", keycode |-> [is_list |-> FALSE, v |-> keycode],
     keystate |-> "key_down", src |-> 0]

\* C10: KEY_LEFTSHIFT and KEY_RIGHTSHIFT both map to "Shift", and the held
\* state of "Shift" follows the last shift transition applied, whichever side
\* it came from.
C10_ShiftCollapses ==
    /\ \A keycode \in ShiftCodes : event_signal(ShiftDown(keycode)).arg = L_Shift
    /\ last_shift = "released" => L_Shift \notin held_keys
    /\ (last_shift = "pressed" /\ Resolves(L_Shift)) => L_Shift \in held_keys

\* left shift pressed, right shift pressed and released, all applied from the
\* device: "Shift" is not held although the left shift is still down
C10_Witness ==
    /\ nphys = 3
    /\ down = {"LSHIFT"}
    /\ {<<1, "device">>, <<2, "device">>, <<3, "device">>} \subseteq applied
    /\ last_shift = "released"
    /\ L_Shift \notin held_keys
    /\ ~CarriesHeld(RectOf(L_Shift))

\* ------------------------------------------------------------------------
\* Claims about threads
\* ------------------------------------------------------------------------
\* this step is a step of the reader thread of some monitor
ReaderStep ==
    \E m \in DOMAIN monitors :
        monitors'[m].pc # monitors[m].pc \/ monitors'[m].event # monitors[m].event
\* this step is the UI thread delivering a queued signal or a window key event
UiDelivery ==
    /\ UiReady
    /\ \/ posted # <<>> /\ posted' = Tail(posted) /\ native' = native
       \/ native # <<>> /\ native' = Tail(native) /\ posted' = posted

\* C11: the held set and the document tree are mutated on the UI thread only:
\* every update_key_state call is made by a UI-thread delivery, one call per
\* step, and a step of the reader thread only queues a signal and leaves the
\* widget untouched.
C11_UiThreadOnly ==
    [][ /\ last_call'.n \in {last_call.n, last_call.n + 1}
        /\ Called => (UiDelivery /\ ~ReaderStep)
        /\ ~Called => UNCHANGED <<svg_root, held_keys, renderer, loads, repaints>>
        /\ ReaderStep => /\ UNCHANGED widget_vars
                         /\ posted' = posted \/ \E call \in ToSet(posted') :
                                                   posted' = Append(posted, call)
      ]_vars

\* a transition read by the reader thread has been applied to the widget by
\* on_global_key_press while the reader is back in read_loop
C11_Witness ==
    /\ keyboard_monitor # 0
    /\ monitors[keyboard_monitor].pc = "read"
    /\ \E src \in 1..MaxPhys : <<src, "device">> \in applied
    /\ last_call.is_held /\ last_call.rect # None
    /\ last_call.key_text \in held_keys

\* ------------------------------------------------------------------------
\* Claims about the backends
\* ------------------------------------------------------------------------
\* this step is showEvent
Shown == win \in {"created", "hidden"} /\ win' = "visible"
\* the label keyPressEvent / keyReleaseEvent compute for the oldest window event
NativeLabel == key_char_of(Head(native))

\* C12: when evdev is importable but find_keyboard_device yields no device
\* (enumeration error or no keyboard), showEvent starts no thread, sets
\* keyboard_monitor to None and leaves the window running; the first show of
\* the window always ends with the window visible; with no monitor the window
\* still applies every window key event that has a label other than the exit
\* label.
C12_DegradesToWindow ==
    [][ /\ (Shown /\ EVDEV_AVAILABLE /\ monitors' = monitors) =>
              (keyboard_monitor' = 0 /\ uiPc' = "idle")
        /\ (win = "created" /\ win' # win) => (win' = "visible" /\ uiPc' = "idle")
        /\ ( /\ keyboard_monitor = 0 /\ UiReady
             /\ native # <<>> /\ native' = Tail(native)
             /\ NativeLabel # S_empty /\ Lower(NativeLabel) # L_x ) =>
              ( /\ Called
                /\ last_call'.key_text = NativeLabel
                /\ last_call'.is_held = (Head(native).type = "KeyPress") )
      ]_vars

\* evdev is importable, no monitor could be started, and a window key press
\* has been applied and highlighted
C12_Witness ==
    /\ EVDEV_AVAILABLE
    /\ win = "visible"
    /\ keyboard_monitor = 0
    /\ monitors = <<>>
    /\ \E src \in 1..MaxPhys : <<src, "window">> \in applied
    /\ last_call.is_held /\ last_call.key_text \in held_keys

\* ------------------------------------------------------------------------
\* Claims about the class string
\* ------------------------------------------------------------------------
Occurrences(toks, tok) == Cardinality({i \in 1..Len(toks) : toks[i] = tok})

\* C13: after every update_key_state call on an indexed label the class
\* string of its rectangle is sorted and space-joined with each token at most
\* once, "held" exactly once after a press and not at all after a release;
\* a press repeated for the same label leaves the class string as the first
\* press made it.
C13_ClassStringStable ==
    [][ (Called /\ last_call'.rect # None) =>
          LET rect == last_call'.rect
              now == ClassOf(svg_root', rect)
              toks == Split(now)
          IN  /\ Canonical(now)
              /\ \A i \in 1..Len(toks) : Occurrences(toks, toks[i]) = 1
              /\ Occurrences(toks, S_held) = (IF last_call'.is_held THEN 1 ELSE 0)
              /\ ( /\ last_call.n > 0 /\ last_call.is_held /\ last_call'.is_held
                   /\ last_call.key_text = last_call'.key_text ) =>
                    now = ClassOf(svg_root, rect)
      ]_vars

\* the same indexed label was pressed twice in a row on a rectangle whose
\* class had a repeated token, and the class string is "held key side"
C13_Witness ==
    /\ last_call.n >= 2
    /\ last_call.is_held /\ prev_call.is_held
    /\ last_call.key_text = prev_call.key_text
    /\ last_call.rect # None
    /\ prev_call.before = S_side_key_key
    /\ ClassOf(svg_root, last_call.rect) = S_held \o <<32>> \o S_key \o <<32, 115, 105, 100, 101>>
    /\ loads = 2

\* ------------------------------------------------------------------------
\* Claims about unmapped events
\* ------------------------------------------------------------------------
\* a device key code with no label: no KEY_ prefix, or a lowercase name longer
\* than one character that is not in EVDEV_KEY_MAP
UnmappedCode(keycode) ==
    \/ ~StartsWith(keycode, KEY_)
    \/ LET key_name == Lower(DropPrefix(keycode, 4))
       IN  Len(key_name) > 1 /\ key_name \notin DOMAIN EVDEV_KEY_MAP
\* a window key event with no label: key not in QT_KEY_MAP and empty text
UnmappedKeyEvent(a0) == a0.key \notin DOMAIN QT_KEY_MAP /\ a0.text = S_empty
WidgetUntouched == UNCHANGED <<svg_root, held_keys, renderer, loads, repaints, last_call>>

\* C14: a device event whose key code has no label makes the reader emit no
\* signal, a window key event with no label makes the handlers call nothing,
\* and in both cases the held set, the document and the repaint count are
\* unchanged; no queued signal ever stems from such a key code.
C14_UnmappedNoEffect ==
    [][ /\ \A m \in DOMAIN monitors :
              ( /\ monitors[m].pc = "emit" /\ monitors'[m].pc = "read"
                /\ UnmappedCode(monitors[m].event.keycode.v) ) =>
                  (posted' = posted /\ WidgetUntouched)
        /\ ( /\ UiReady /\ native # <<>> /\ native' = Tail(native)
             /\ UnmappedKeyEvent(Head(native)) ) =>
                  (WidgetUntouched /\ win' = win /\ uiPc' = uiPc)
        /\ \A i \in 1..Len(posted') : ~UnmappedCode(posted'[i].code)
      ]_vars

\* the function key and the extra button were pressed with the monitor running
\* and the window focused; reader and window have consumed both events and
\* nothing was called or queued
C14_Witness ==
    /\ down = {"F1", "BTN"}
    /\ nphys = 2
    /\ ~missed
    /\ keyboard_monitor # 0
    /\ monitors[keyboard_monitor].pc = "read"
    /\ monitors[keyboard_monitor].buf = <<>>
    /\ native = <<>>
    /\ posted = <<>>
    /\ last_call.n = 0
    /\ loads = 0

\* ------------------------------------------------------------------------
\* Claims about live()
\* ------------------------------------------------------------------------
\* C15: when the SVG file does not exist, live() exits with code 1 and at no
\* time is an application object or a window created or a monitor started.
C15_MissingFileExits ==
    [][ ~svg_exists =>
          /\ ~app' /\ win' = "none"
          /\ monitors' = <<>> /\ keyboard_monitor' = 0
          /\ exit_code' \in {exit_code, 1}
          /\ (win = "none" /\ exit_code = 0 /\ UNCHANGED keyboard_vars) => exit_code' = 1
      ]_vars

\* the file was missing and live() has exited with code 1
C15_Witness ==
    /\ ~svg_exists
    /\ exit_code = 1
    /\ ~app
    /\ win = "none"
    /\ monitors = <<>>

\* ------------------------------------------------------------------------
\* Claims about label resolution
\* ------------------------------------------------------------------------
\* the first rectangle of the group of the first key-label text node, in
\* document order, that carries the label and whose group has a rectangle
RECURSIVE FirstRecordableFrom(_, _, _)
FirstRecordableFrom(root, refs, key_text) ==
    IF refs = <<>> THEN None
    ELSE LET text_elem == root[Head(refs)[1]].texts[Head(refs)[2]]
             group == Head(refs)[1]
         IN  IF /\ Contains(S_key, text_elem.cls)
                /\ Strip(text_elem.text) = key_text
                /\ Len(root[group].rects) > 0
             THEN <<group, 1>>
             ELSE FirstRecordableFrom(root, Tail(refs), key_text)
FirstRecordable(root, key_text) == FirstRecordableFrom(root, TextRefs(root), key_text)

\* C16: the rectangle update_key_state resolves a label to is the first
\* rectangle of the group of the first matching key-label text node whose
\* group has a rectangle; a matching text node in a group without rectangle
\* is skipped.
C16_FirstRecordableWins ==
    last_call.n > 0 =>
        last_call.rect = FirstRecordable(svg_root, last_call.key_text)

\* ------------------------------------------------------------------------
\* Claims about the order of transitions
\* ------------------------------------------------------------------------
\* C17: the transitions a reader emits are applied on the UI thread in the
\* order the device produced them: the calls queued by one reader are in the
\* order of the device's events, although presses and releases travel over
\* two signals, and the UI thread applies the oldest queued call, with its
\* label and direction, before any later one.
C17_OrderPreserved ==
    [][ /\ \A i, j \in 1..Len(posted') :
              (i < j /\ posted'[i].mon = posted'[j].mon) =>
                  posted'[i].src < posted'[j].src
        /\ ( /\ UiReady /\ posted # <<>> /\ posted' = Tail(posted)
             /\ Head(posted).arg # L_x ) =>
              ( /\ Called
                /\ last_call'.key_text = Head(posted).arg
                /\ last_call'.is_held = (Head(posted).sig = "key_pressed") )
      ]_vars

\* the press of a key and its release, emitted over the two signals, are both
\* queued, the press first
C17_Witness ==
    /\ Len(posted) = 2
    /\ posted[1].sig = "key_pressed" /\ posted[2].sig = "key_released"
    /\ posted[1].arg = posted[2].arg /\ posted[1].arg # L_x
    /\ posted[1].mon = posted[2].mon
    /\ posted[1].src + 1 = posted[2].src

\* ------------------------------------------------------------------------
\* Claims about the reader threads of a window
\* ------------------------------------------------------------------------
\* the monitors whose reader thread has not ended
Alive == {m \in DOMAIN monitors : monitors[m].pc # "done"}

\* C18: across show, hide, re-show and close of the window at most one reader
\* thread is alive at any time.
C18_OneReader == Cardinality(Alive) =< 1

\* this step is reader m emitting a signal
Emits(m) ==
    /\ monitors[m].pc = "emit" /\ monitors'[m].pc = "read"
    /\ posted' # posted

\* C19: once stop() has set stop_flag the reader emits no further
\* key_pressed or key_released signal.
C19_NoEmitAfterStop ==
    [][ \A m \in DOMAIN monitors : monitors[m].stop_flag => ~Emits(m) ]_vars

\* ------------------------------------------------------------------------
\* Claims about the window-scoped backend
\* ------------------------------------------------------------------------
NoRectHeld ==
    \A g \in 1..Len(svg_root) : \A j \in 1..Len(svg_root[g].rects) :
        S_held \notin Tokens(svg_root[g].rects[j])

\* C20: in the window-scoped backend, whenever every key transition came
\* while the window was visible and focused, every pressed key has been
\* released and the handlers have run for all of them, held_keys is empty and
\* no rectangle carries "held".
C20_NoStuckHighlight ==
    (~missed /\ down = {} /\ native = <<>>) => (held_keys = {} /\ NoRectHeld)

====
